---- MODULE Spec2Model ----
(***************************************************************************)
(* Spring animations: the Spring class of src/unnamed/part_001 (parameter  *)
(* resolution, the spring value function, the bezier approximation and the *)
(* requestAnimationFrame loop of animate) and the older Spring class of    *)
(* src/springs.js (its constructor and applyPreset).                       *)
(*                                                                         *)
(* JavaScript numbers are held in fixed point: a finite number is an       *)
(* integer count of thousandths, next to NaN, +Infinity, -Infinity,        *)
(* undefined and a non-numeric string.  A duration in seconds is therefore *)
(* a count of milliseconds, the unit of the frame timestamps.              *)
(***************************************************************************)
EXTENDS Integers, Sequences, FiniteSets, TLC

\* Thousandths per unit; tick divides the millisecond timestamps by it.
Scale == 1000

\* Finite magnitudes above MaxMag thousandths are held as an infinity.
MaxMag == 2000000

\* Math.PI and its multiples, in thousandths.
Pi == 3142
TwoPi == 6283
FourPi == 12566

-----------------------------------------------------------------------------
(* JavaScript values *)

Fin(v) == [k |-> "num", v |-> v]
NaN == [k |-> "nan", v |-> 0]
Inf(s) == [k |-> "inf", v |-> s]
Undefined == [k |-> "undef", v |-> 0]
Text == [k |-> "str", v |-> 0]
Bool(b) == [k |-> "bool", v |-> IF b THEN 1 ELSE 0]
\* A key the object does not have.
Absent == [k |-> "absent", v |-> 0]

IsFin(x) == x.k = "num"
IsNaN(x) == x.k = "nan"
IsNumber(x) == x.k \in {"num", "inf"}
\* A finite number above zero.
Positive(x) == IsFin(x) /\ x.v > 0

\* ToNumber: undefined and a non-numeric string convert to NaN.
ToNumber(x) ==
  CASE x.k \in {"undef", "str", "absent"} -> NaN
    [] x.k = "bool" -> Fin(x.v * Scale)
    [] OTHER -> x

\* ToBoolean: 0, NaN and undefined are falsy.
Truthy(x) ==
  CASE x.k = "num" -> x.v # 0
    [] x.k = "inf" -> TRUE
    [] x.k = "str" -> TRUE
    [] x.k = "bool" -> x.v # 0
    [] OTHER -> FALSE

\* x || d
OrElse(x, d) == IF Truthy(x) THEN x ELSE d

AbsI(i) == IF i < 0 THEN -i ELSE i
SgnI(i) == IF i < 0 THEN -1 ELSE IF i > 0 THEN 1 ELSE 0
SgnV(x) == SgnI(x.v)

Clip(i) == IF i > MaxMag THEN Inf(1) ELSE IF i < -MaxMag THEN Inf(-1) ELSE Fin(i)

\* Position of a number on the extended real line (NaN excluded by callers).
Ord(x) == IF x.k = "inf" THEN x.v * (2 * MaxMag + 2) ELSE x.v

Lt(a, b) ==
  LET x == ToNumber(a)  y == ToNumber(b)
  IN  IsNumber(x) /\ IsNumber(y) /\ Ord(x) < Ord(y)
Le(a, b) ==
  LET x == ToNumber(a)  y == ToNumber(b)
  IN  IsNumber(x) /\ IsNumber(y) /\ Ord(x) <= Ord(y)
Gt(a, b) == Lt(b, a)
Ge(a, b) == Le(b, a)

Neg(a) ==
  LET x == ToNumber(a)
  IN  IF IsNaN(x) THEN NaN ELSE [x EXCEPT !.v = -x.v]

Add(a, b) ==
  LET x == ToNumber(a)  y == ToNumber(b)
  IN  CASE IsNaN(x) \/ IsNaN(y) -> NaN
        [] x.k = "inf" /\ y.k = "inf" -> IF x.v = y.v THEN x ELSE NaN
        [] x.k = "inf" -> x
        [] y.k = "inf" -> y
        [] OTHER -> Clip(x.v + y.v)

Sub(a, b) == Add(a, Neg(b))

\* |i| * |j| / Scale on magnitudes, without leaving the 32-bit range.
MulMag(i, j) == (i \div Scale) * j + ((i % Scale) * j) \div Scale

Mul(a, b) ==
  LET x == ToNumber(a)  y == ToNumber(b)
  IN  CASE IsNaN(x) \/ IsNaN(y) -> NaN
        [] x.k = "inf" \/ y.k = "inf" ->
             IF SgnV(x) * SgnV(y) = 0 THEN NaN ELSE Inf(SgnV(x) * SgnV(y))
        [] OTHER ->
             LET i == AbsI(x.v)  j == AbsI(y.v)  s == SgnV(x) * SgnV(y)
             IN  IF (i \div Scale) * (j \div Scale) > MaxMag \div Scale
                 THEN Inf(s)
                 ELSE Clip(s * MulMag(i, j))

Div(a, b) ==
  LET x == ToNumber(a)  y == ToNumber(b)
  IN  CASE IsNaN(x) \/ IsNaN(y) -> NaN
        [] x.k = "inf" /\ y.k = "inf" -> NaN
        [] x.k = "inf" -> Inf(IF SgnV(y) < 0 THEN -x.v ELSE x.v)
        [] y.k = "inf" -> Fin(0)
        [] y.v = 0 -> IF x.v = 0 THEN NaN ELSE Inf(SgnV(x))
        [] OTHER ->
             LET i == AbsI(x.v)  j == AbsI(y.v)  s == SgnV(x) * SgnV(y)
             IN  IF i > MaxMag THEN Inf(s)
                 ELSE Clip(s * ((i * Scale) \div j))

RECURSIVE ISqrtIn(_, _, _)
ISqrtIn(n, lo, hi) ==
  IF lo >= hi THEN lo
  ELSE LET mid == (lo + hi + 1) \div 2
       IN  IF mid * mid <= n THEN ISqrtIn(n, mid, hi) ELSE ISqrtIn(n, lo, mid - 1)

\* Math.sqrt: NaN below zero.
Sqrt(a) ==
  LET x == ToNumber(a)
  IN  CASE IsNaN(x) -> NaN
        [] x.k = "inf" -> IF x.v > 0 THEN x ELSE NaN
        [] x.v < 0 -> NaN
        [] x.v > MaxMag -> Inf(1)
        [] OTHER -> Fin(ISqrtIn(x.v * Scale, 0, 46340))

\* Math.abs
Abs(a) ==
  LET x == ToNumber(a)
  IN  IF IsNaN(x) THEN NaN ELSE [x EXCEPT !.v = AbsI(x.v)]

\* Math.max, Math.min: NaN if either argument is NaN.
Max(a, b) ==
  LET x == ToNumber(a)  y == ToNumber(b)
  IN  IF IsNaN(x) \/ IsNaN(y) THEN NaN ELSE IF Ord(x) >= Ord(y) THEN x ELSE y
Min(a, b) ==
  LET x == ToNumber(a)  y == ToNumber(b)
  IN  IF IsNaN(x) \/ IsNaN(y) THEN NaN ELSE IF Ord(x) <= Ord(y) THEN x ELSE y

\* Sum of the series 1 + x + x^2/2! + ... for a magnitude x, in thousandths.
RECURSIVE ExpSeries(_, _, _, _)
ExpSeries(x, term, n, acc) ==
  IF term = 0 \/ acc > MaxMag THEN acc
  ELSE ExpSeries(x, MulMag(term, x) \div n, n + 1, acc + term)

\* Math.exp
Exp(a) ==
  LET x == ToNumber(a)
  IN  CASE IsNaN(x) -> NaN
        [] x.k = "inf" -> IF x.v > 0 THEN x ELSE Fin(0)
        [] AbsI(x.v) > 8 * Scale -> IF x.v > 0 THEN Inf(1) ELSE Fin(0)
        [] x.v >= 0 -> Clip(ExpSeries(x.v, Scale, 1, 0))
        [] OTHER -> Div(Fin(Scale), Clip(ExpSeries(-x.v, Scale, 1, 0)))

\* Sum of the series 1 - r^2/2! + r^4/4! - ... for 0 <= r <= Pi/2.
RECURSIVE CosSeries(_, _, _, _)
CosSeries(r2, term, n, acc) ==
  IF term = 0 THEN acc
  ELSE CosSeries(r2, -(SgnI(term) * (MulMag(AbsI(term), r2) \div (n * (n + 1)))),
                 n + 2, acc + term)

\* Math.cos
Cos(a) ==
  LET x == ToNumber(a)
  IN  CASE IsNaN(x) -> NaN
        [] x.k = "inf" -> NaN
        [] OTHER ->
             LET m == AbsI(x.v) % TwoPi
                 h == IF m > Pi THEN TwoPi - m ELSE m
                 flip == 2 * h > Pi
                 r == IF flip THEN Pi - h ELSE h
                 c == CosSeries(MulMag(r, r), Scale, 1, 0)
             IN  Fin(IF flip THEN -c ELSE c)

-----------------------------------------------------------------------------
(* Parameter resolution: src/unnamed/part_001 *)

PresetNames == {"bouncy", "smooth", "flattened"}

\* Spring.PRESETS[name]: undefined for any other name (the names of
\* Object.prototype aside).
PRESETS(name) ==
  CASE name = "bouncy" -> [duration |-> Fin(700), bounce |-> Fin(400)]
    [] name = "smooth" -> [duration |-> Fin(500), bounce |-> Fin(0)]
    [] name = "flattened" -> [duration |-> Fin(400), bounce |-> Fin(-200)]
    [] OTHER -> [duration |-> Absent, bounce |-> Absent]

HasPreset(name) == name \in PresetNames

\* The argument of a constructor: a string, or an object with some of the keys.
EmptyConfig ==
  [isString |-> FALSE, name |-> "",
   mass |-> Absent, stiffness |-> Absent, damping |-> Absent,
   duration |-> Absent, bounce |-> Absent,
   isArray |-> FALSE, properties |-> <<>>,
   bezierAnimation |-> Absent, preset |-> ""]

StringConfig(name) == [EmptyConfig EXCEPT !.isString = TRUE, !.name = name]

\* 'key' in config
Has(v) == v.k # "absent"
\* config.key
Get(v) == IF v.k = "absent" THEN Undefined ELSE v

\* An object before its constructor has assigned anything.
NoSpring ==
  [mass |-> Undefined, stiffness |-> Undefined, damping |-> Undefined,
   duration |-> Undefined, bounce |-> Undefined,
   properties |-> <<>>, useBezier |-> Undefined]

\* The damping initFromDurationAndBounce derives from (duration, bounce).
DampingFromBounce(duration, bounce) ==
  IF Ge(bounce, Fin(0))
  THEN Sub(Fin(Scale), Div(Mul(Fin(FourPi), bounce), duration))
  ELSE Div(Fin(FourPi), Add(duration, Mul(Fin(FourPi), bounce)))

\* The stiffness initFromDurationAndBounce derives: Math.pow(2 * Math.PI / duration, 2).
StiffnessFromDuration(duration) ==
  LET w == Div(Fin(TwoPi), duration) IN Mul(w, w)

initFromDurationAndBounce(self, duration, bounce) ==
  [self EXCEPT !.duration = duration,
               !.bounce = bounce,
               !.mass = Fin(Scale),
               !.stiffness = StiffnessFromDuration(ToNumber(duration)),
               !.damping = DampingFromBounce(ToNumber(duration), ToNumber(bounce))]

calculateBounceFromDamping(self) ==
  LET criticalDamping == Mul(Fin(2 * Scale), Sqrt(Mul(self.mass, self.stiffness)))
  IN  Div(Sub(criticalDamping, self.damping), criticalDamping)

\* The bounce the constructor hands on: Math.max(-1, Math.min(1, config.bounce || 0)).
ClampBounce(b) == Max(Fin(-Scale), Min(Fin(Scale), OrElse(b, Fin(0))))

\* The constructor's first part: the five fields of the model, from the config.
ResolveModel(config) ==
  IF config.isString
  THEN initFromDurationAndBounce(NoSpring, PRESETS(config.name).duration,
                                 PRESETS(config.name).bounce)
  ELSE IF Has(config.mass) /\ Has(config.stiffness) /\ Has(config.damping)
  THEN LET s1 == [NoSpring EXCEPT !.mass = Get(config.mass),
                                  !.stiffness = Get(config.stiffness),
                                  !.damping = Get(config.damping)]
           s2 == [s1 EXCEPT !.duration =
                    Div(Fin(TwoPi), Sqrt(Div(s1.stiffness, s1.mass)))]
       IN  [s2 EXCEPT !.bounce = calculateBounceFromDamping(s2)]
  ELSE initFromDurationAndBounce(NoSpring,
                                 OrElse(Get(config.duration), Fin(500)),
                                 ClampBounce(Get(config.bounce)))

\* new Spring(config) throws for a string that names no preset.
ConstructorThrows(config) == config.isString /\ ~HasPreset(config.name)

\* new Spring(config), when it does not throw.
Construct(config) ==
  [ResolveModel(config) EXCEPT
     !.properties = IF config.isArray THEN config.properties ELSE <<"transform">>,
     !.useBezier = OrElse(Get(config.bezierAnimation), Bool(FALSE))]

\* The object Spring.fromPreset hands to the constructor:
\* { ...Spring.PRESETS[presetName], bezierAnimation: useBezier }.
FromPresetConfig(presetName, useBezier) ==
  [EmptyConfig EXCEPT !.duration = PRESETS(presetName).duration,
                      !.bounce = PRESETS(presetName).bounce,
                      !.bezierAnimation = useBezier]

FromPhysicsConfig(mass, stiffness, damping, useBezier) ==
  [EmptyConfig EXCEPT !.mass = mass, !.stiffness = stiffness, !.damping = damping,
                      !.bezierAnimation = useBezier]

FromDurationAndBounceConfig(duration, bounce, useBezier) ==
  [EmptyConfig EXCEPT !.duration = duration, !.bounce = bounce,
                      !.bezierAnimation = useBezier]

-----------------------------------------------------------------------------
(* The older class: src/springs.js *)

\* A destructured parameter: its default replaces undefined.
Default(v, d) == IF v.k \in {"absent", "undef"} THEN d ELSE v

\* applyPreset's table; a name it does not hold changes nothing.
LegacyPresets(name) ==
  CASE name = "bouncy" -> [bounce |-> Fin(400), stiffness |-> Fin(200000), damping |-> Fin(5000)]
    [] name = "smooth" -> [bounce |-> Fin(0), stiffness |-> Fin(100000), damping |-> Fin(8000)]
    [] name = "flattened" -> [bounce |-> Fin(-400), stiffness |-> Fin(80000), damping |-> Fin(15000)]
    [] OTHER -> [bounce |-> Absent, stiffness |-> Absent, damping |-> Absent]

applyPreset(self, preset) ==
  IF HasPreset(preset)
  THEN [self EXCEPT !.bounce = LegacyPresets(preset).bounce,
                    !.stiffness = LegacyPresets(preset).stiffness,
                    !.damping = LegacyPresets(preset).damping]
  ELSE self

\* new Spring({duration, bounce, mass, stiffness, damping, properties, preset}) of springs.js.
LegacyConstruct(config) ==
  LET s == [mass |-> Default(config.mass, Fin(Scale)),
            stiffness |-> Default(config.stiffness, Fin(100000)),
            damping |-> Default(config.damping, Fin(10000)),
            duration |-> Default(config.duration, Fin(500)),
            bounce |-> Default(config.bounce, Fin(200)),
            properties |-> IF config.isArray THEN config.properties ELSE <<"transform">>,
            useBezier |-> Undefined]
  IN  IF config.preset # "" THEN applyPreset(s, config.preset) ELSE s

-----------------------------------------------------------------------------
(* The motion evaluator: src/unnamed/part_001 *)

\* generateBezierPoints with the start handle scaled by the duration.
generateBezierPointsByDuration(self) ==
  IF Le(self.bounce, Fin(0))
  THEN << Add(Fin(160), Mul(Fin(120), Abs(self.bounce))),
          Fin(0),
          Add(Fin(280), Mul(Fin(120), Abs(self.bounce))),
          Fin(Scale) >>
  ELSE LET overshoot == Mul(self.bounce, Fin(200))
       IN  << Mul(Fin(200), self.duration), Add(Fin(200), overshoot), Fin(800),
              Add(Fin(Scale), overshoot) >>

\* generateBezierPoints(): the control points [x1, y1, x2, y2].
generateBezierPoints(self) ==
  IF Le(self.bounce, Fin(0))
  THEN << Add(Fin(160), Mul(Fin(120), Abs(self.bounce))),
          Fin(0),
          Add(Fin(280), Mul(Fin(120), Abs(self.bounce))),
          Fin(Scale) >>
  ELSE LET overshoot == Mul(self.bounce, Fin(200))
       IN  << Fin(200), Add(Fin(200), overshoot), Fin(800), Add(Fin(Scale), overshoot) >>

\* calculateSpringValue(t)
calculateSpringValue(self, t) ==
  LET normalizedTime == Div(t, self.duration)
  IN  IF Gt(self.bounce, Fin(0))
      THEN LET omega == Sqrt(Div(self.stiffness, self.mass))
               zeta == Div(self.damping,
                           Mul(Fin(2 * Scale), Sqrt(Mul(self.mass, self.stiffness))))
           IN  Mul(Exp(Mul(Mul(Neg(zeta), omega), normalizedTime)),
                   Cos(Mul(Mul(omega, Sqrt(Sub(Fin(Scale), Mul(zeta, zeta)))),
                           normalizedTime)))
      ELSE LET disc == Sqrt(Sub(Mul(self.damping, self.damping),
                                Mul(Fin(4 * Scale), self.stiffness)))
               a == Add(self.damping, disc)
               b == Sub(self.damping, disc)
           IN  Div(Add(Exp(Mul(Neg(a), normalizedTime)),
                       Exp(Mul(Neg(b), normalizedTime))),
                   Fin(2 * Scale))

-----------------------------------------------------------------------------
(* State *)

VARIABLES
  springs,   \* the Spring objects the caller holds, by slot
  origin,    \* how each slot's object was built: the entry point and its config
  call,      \* the last call made and what it returned or threw
  now,       \* performance.now(), in milliseconds
  requests,  \* the animate calls made with useBezier false: each one's closure
  rafQueue,  \* the requests whose tick is registered for the next frame
  element    \* the style of the element being animated, and (log) the
             \* assignments made to it by the last step that wrote to it

vars == <<springs, origin, call, now, requests, rafQueue, element>>

Slots == {1, 2}

NoOrigin == [via |-> "none", name |-> "", config |-> EmptyConfig]

NoCall ==
  [op |-> "none", slot |-> 0, name |-> "", threw |-> FALSE, t |-> Undefined,
   value |-> Undefined, points |-> <<>>,
   startValue |-> Undefined, endValue |-> Undefined, evaluations |-> 0]

NoStyle ==
  [transform |-> [fn |-> "none", arg |-> [arg |-> Undefined, unit |-> ""]],
   opacity |-> [arg |-> Undefined, unit |-> ""],
   width |-> [arg |-> Undefined, unit |-> ""],
   transition |-> [property |-> "", duration |-> Undefined, points |-> <<>>],
   log |-> <<>>]

Built(i) == origin[i].via # "none"
\* Built by the class of part_001, whose methods the calls below are.
BuiltCurrent(i) == Built(i) /\ origin[i].via # "springs.js"

Init ==
  /\ springs = [i \in Slots |-> NoSpring]
  /\ origin = [i \in Slots |-> NoOrigin]
  /\ call = NoCall
  /\ now = 0
  /\ requests = <<>>
  /\ rafQueue = <<>>
  /\ element = NoStyle

AnimUnchanged == UNCHANGED <<now, requests, rafQueue, element>>

-----------------------------------------------------------------------------
(* Construction *)

\* The constructor returned obj into slot i.
Returned(i, via, name, config, obj) ==
  /\ springs' = [springs EXCEPT ![i] = obj]
  /\ origin' = [origin EXCEPT ![i] = [via |-> via, name |-> name, config |-> config]]
  /\ call' = [NoCall EXCEPT !.op = via, !.slot = i, !.name = name]
  /\ AnimUnchanged

\* The constructor threw: no object, the slot keeps what it held.
Threw(i, via, name) ==
  /\ call' = [NoCall EXCEPT !.op = via, !.slot = i, !.name = name, !.threw = TRUE]
  /\ UNCHANGED <<springs, origin>>
  /\ AnimUnchanged

\* The entry point: new Spring(name) or new Spring({...}).
NewVia(config) == IF config.isString THEN "new(name)" ELSE "new(config)"

\* slot i = new Spring(config)
NewSpring(i, config) ==
  \/ /\ ConstructorThrows(config)
     /\ Threw(i, NewVia(config), config.name)
  \/ /\ ~ConstructorThrows(config)
     /\ Returned(i, NewVia(config), config.name, config, Construct(config))

\* slot i = Spring.fromPreset(presetName, useBezier): the constructor is handed
\* an object, never the name.
FromPreset(i, presetName, useBezier) ==
  LET config == FromPresetConfig(presetName, useBezier)
  IN  /\ ~ConstructorThrows(config)
      /\ Returned(i, "fromPreset", presetName, config, Construct(config))

\* slot i = Spring.fromPhysics(mass, stiffness, damping, useBezier)
FromPhysics(i, mass, stiffness, damping, useBezier) ==
  LET config == FromPhysicsConfig(mass, stiffness, damping, useBezier)
  IN  /\ ~ConstructorThrows(config)
      /\ Returned(i, "fromPhysics", "", config, Construct(config))

\* slot i = Spring.fromDurationAndBounce(duration, bounce, useBezier)
FromDurationAndBounce(i, duration, bounce, useBezier) ==
  LET config == FromDurationAndBounceConfig(duration, bounce, useBezier)
  IN  /\ ~ConstructorThrows(config)
      /\ Returned(i, "fromDurationAndBounce", "", config, Construct(config))

\* slot i = new Spring(config) of springs.js
LegacyNew(i, config) ==
  LET obj == LegacyConstruct(config)
  IN  /\ Returned(i, "springs.js", config.preset, config, obj)

-----------------------------------------------------------------------------
(* Calls of the evaluator *)

\* springs[i].generateBezierPoints()
GenerateBezierPoints(i) ==
  /\ BuiltCurrent(i)
  /\ call' = [NoCall EXCEPT !.op = "generateBezierPoints", !.slot = i,
                            !.points = generateBezierPoints(springs[i])]
  /\ UNCHANGED <<springs, origin>>
  /\ AnimUnchanged

\* springs[i].calculateSpringValue(t)
CalculateSpringValue(i, t) ==
  /\ BuiltCurrent(i)
  /\ call' = [NoCall EXCEPT !.op = "calculateSpringValue", !.slot = i, !.t = t,
                            !.value = calculateSpringValue(springs[i], t)]
  /\ UNCHANGED <<springs, origin>>
  /\ AnimUnchanged

-----------------------------------------------------------------------------
(* Inputs *)

NameIn == PresetNames \cup {"giggly"}
UseBezierIn == {Bool(FALSE), Bool(TRUE)}
MassIn == {Fin(1000), Fin(0), Text}
StiffnessIn == {Fin(100000), Fin(1000), Fin(-4000)}
DampingIn == {Fin(10000), Fin(30000), Fin(50000), Fin(-5000)}
DurationIn == {Fin(400), Fin(13000), Fin(30000), Fin(0), Text}
BounceIn == {Fin(-1500), Fin(-50), Fin(0), Fin(400), Fin(2000), Undefined}
TimeIn == {Fin(0), Fin(350), Fin(500), Fin(1000)}

\* Objects handed to new Spring: the physical shape with any of its keys
\* missing, the duration/bounce shape, and the options.
PhysicsConfigs ==
  { [EmptyConfig EXCEPT !.mass = m, !.stiffness = s, !.damping = d] :
      m \in {Fin(1000), Absent},
      s \in {Fin(100000), Fin(-4000), Absent},
      d \in {Fin(10000), Absent} }
DurationBounceConfigs ==
  { [EmptyConfig EXCEPT !.duration = d, !.bounce = b] :
      d \in {Fin(500), Text, Absent},
      b \in {Fin(-200), Fin(2000), Text, Absent} }
OptionConfigs ==
  { [EmptyConfig EXCEPT !.isArray = TRUE, !.properties = p, !.bezierAnimation = u] :
      p \in {<<"opacity">>, <<"transform", "opacity">>}, u \in {Bool(TRUE), Absent} }
Configs ==
  {StringConfig(n) : n \in NameIn} \cup PhysicsConfigs \cup DurationBounceConfigs
    \cup OptionConfigs

LegacyConfigs ==
  { [EmptyConfig EXCEPT !.preset = n, !.duration = d] :
      n \in {"", "bouncy", "flattened", "giggly"}, d \in {Absent, Fin(700)} }

-----------------------------------------------------------------------------
(* The resolver and the evaluator, one object *)

Next ==
  \/ \E config \in Configs : NewSpring(1, config)
  \/ \E n \in NameIn, u \in UseBezierIn : FromPreset(1, n, u)
  \/ \E m \in MassIn, s \in StiffnessIn, d \in DampingIn :
       FromPhysics(1, m, s, d, Bool(FALSE))
  \/ \E d \in DurationIn, b \in BounceIn : FromDurationAndBounce(1, d, b, Bool(FALSE))
  \/ \E config \in LegacyConfigs : LegacyNew(1, config)
  \/ GenerateBezierPoints(1)
  \/ \E t \in TimeIn : CalculateSpringValue(1, t)

Spec == Init /\ [][Next]_vars

-----------------------------------------------------------------------------
(* Two objects side by side *)

PairNameIn == PresetNames \cup {"giggly"}
PairPhysicsIn ==
  { <<Fin(1000), Fin(100000), Fin(10000)>>, <<Fin(1000), Fin(100000), Fin(30000)>>,
    <<Fin(1000), Fin(100000), Fin(20000)>>, <<Fin(4000), Fin(25000), Fin(10000)>>,
    <<Fin(1000), Fin(100000), Fin(50000)>> }
PairDurationBounceIn ==
  { <<Fin(400), Fin(400)>>, <<Fin(700), Fin(400)>>, <<Fin(500), Fin(-200)>> }

Other(i) == 3 - i

PairNext ==
  \/ \E i \in Slots, n \in PairNameIn : NewSpring(i, StringConfig(n))
  \/ \E i \in Slots, n \in PairNameIn : FromPreset(i, n, Bool(FALSE))
  \/ \E i \in Slots, p \in PairPhysicsIn : FromPhysics(i, p[1], p[2], p[3], Bool(FALSE))
  \/ \E i \in Slots, p \in PairDurationBounceIn :
       FromDurationAndBounce(i, p[1], p[2], Bool(FALSE))
  \* the other object's derived (duration, bounce), fed back in
  \/ \E i \in Slots :
       /\ Built(Other(i))
       /\ FromDurationAndBounce(i, springs[Other(i)].duration, springs[Other(i)].bounce,
                                Bool(FALSE))
  \/ \E i \in Slots, n \in PresetNames :
       LegacyNew(i, [EmptyConfig EXCEPT !.preset = n])
  \/ \E i \in Slots : GenerateBezierPoints(i)

PairSpec == Init /\ [][PairNext]_vars

-----------------------------------------------------------------------------
(* The animation loop: src/unnamed/part_001 *)

\* typeof value === 'number'
IsNumberType(x) == x.k \in {"num", "nan", "inf"}

\* A value as the text assigned to a style property: `${value}px` or the value.
Px(value) == [arg |-> value, unit |-> "px"]
Plain(value) == [arg |-> value, unit |-> ""]

\* element.style[field] = text, made while handling the listed property `by`.
Assign(style, by, field, text) ==
  [style EXCEPT ![field] = text,
                !.log = Append(@, [by |-> by, field |-> field, text |-> text])]

\* element.style[property] = text, for a property other than transform; width
\* stands for every property name but transform, scale and opacity.
SetStyle(style, property, text) ==
  Assign(style, property, IF property = "opacity" THEN "opacity" ELSE "width", text)

\* updateElementProperties(element, value): one write per listed property.
RECURSIVE updateElementProperties(_, _, _)
updateElementProperties(properties, style, value) ==
  IF properties = <<>> THEN style
  ELSE LET property == Head(properties)
           written ==
             CASE property = "transform" ->
                    Assign(style, property, "transform",
                           [fn |-> "translateY", arg |-> Px(value)])
               [] property = "opacity" -> SetStyle(style, property, Plain(value))
               [] property = "scale" ->
                    Assign(style, property, "transform",
                           [fn |-> "scale", arg |-> Plain(value)])
               [] OTHER ->
                    IF IsNumberType(value)
                    THEN SetStyle(style, property, Px(value))
                    ELSE style
       IN  updateElementProperties(Tail(properties), written, value)

\* The transition applyBezierAnimation sets:
\* `${property} ${this.duration}s cubic-bezier(x1, y1, x2, y2)`
Transition(self, property) ==
  [property |-> property, duration |-> self.duration,
   points |-> generateBezierPoints(self)]

\* applyBezierAnimation without the typeof test of its transform branch.
applyBezierAnimationUnguarded(self, style, property, startValue, endValue) ==
  LET s1 == Assign(style, property, "transition", Transition(self, property))
  IN  CASE property = "transform" ->
             Assign(s1, property, "transform",
                    [fn |-> "translateY", arg |-> Px(endValue)])
        [] property = "scale" ->
             Assign(s1, property, "transform", [fn |-> "scale", arg |-> Plain(endValue)])
        [] OTHER ->
             SetStyle(s1, property,
                      IF IsNumberType(endValue) THEN Px(endValue) ELSE Plain(endValue))

\* applyBezierAnimation(element, property, startValue, endValue)
applyBezierAnimation(self, style, property, startValue, endValue) ==
  LET s1 == Assign(style, property, "transition", Transition(self, property))
  IN  CASE property = "transform" ->
             IF IsNumberType(startValue) /\ IsNumberType(endValue)
             THEN Assign(s1, property, "transform",
                         [fn |-> "translateY", arg |-> Px(endValue)])
             ELSE s1
        [] property = "scale" ->
             Assign(s1, property, "transform", [fn |-> "scale", arg |-> Plain(endValue)])
        [] OTHER ->
             SetStyle(s1, property,
                      IF IsNumberType(endValue) THEN Px(endValue) ELSE Plain(endValue))

\* animate's forEach over the properties when useBezier is set.
RECURSIVE ApplyBezierToAll(_, _, _, _, _)
ApplyBezierToAll(self, properties, style, startValue, endValue) ==
  IF properties = <<>> THEN style
  ELSE ApplyBezierToAll(self, Tail(properties),
         applyBezierAnimation(self, style, Head(properties), startValue, endValue),
         startValue, endValue)

\* tick's test: elapsed >= this.duration * 1.5
Settled(self, elapsed) == Ge(elapsed, Mul(self.duration, Fin(1500)))

\* A tick that never snaps to the end value.
tickValueUnsnapped(r, elapsed) ==
  Add(r.startValue, Mul(r.totalDistance, calculateSpringValue(r.self, elapsed)))

\* The value a tick hands to updateElementProperties.
tickValue(r, elapsed) ==
  IF Settled(r.self, elapsed)
  THEN r.endValue
  ELSE Add(r.startValue, Mul(r.totalDistance, calculateSpringValue(r.self, elapsed)))

\* The closure of one animate call, and what its last tick did.
NewRequest(self, startValue, endValue) ==
  [self |-> self, startTime |-> now, startValue |-> startValue, endValue |-> endValue,
   totalDistance |-> Sub(endValue, startValue),
   ticked |-> FALSE, elapsed |-> Fin(0), wrote |-> Undefined, done |-> FALSE]

\* A frame that runs the callbacks registered before it last one first.
RECURSIVE RunFrameReversed(_, _, _, _, _)
RunFrameReversed(queue, currentTime, reqs, style, registered) ==
  IF queue = <<>>
  THEN [requests |-> reqs, element |-> style, rafQueue |-> registered]
  ELSE LET id == queue[Len(queue)]
           r == reqs[id]
           elapsed == Fin(currentTime - r.startTime)
           value == tickValue(r, elapsed)
           finished == Settled(r.self, elapsed)
           ticked == [r EXCEPT !.ticked = TRUE, !.elapsed = elapsed, !.wrote = value,
                               !.done = finished]
       IN  RunFrameReversed(SubSeq(queue, 1, Len(queue) - 1), currentTime,
                            [reqs EXCEPT ![id] = ticked],
                            updateElementProperties(r.self.properties, style, value),
                            IF finished THEN registered ELSE Append(registered, id))

\* One frame: the callbacks registered before it run in order at currentTime;
\* those they register wait for the next frame.
RECURSIVE RunFrame(_, _, _, _, _)
RunFrame(queue, currentTime, reqs, style, registered) ==
  IF queue = <<>>
  THEN [requests |-> reqs, element |-> style, rafQueue |-> registered]
  ELSE LET id == Head(queue)
           r == reqs[id]
           elapsed == Fin(currentTime - r.startTime)
           value == tickValue(r, elapsed)
           finished == Settled(r.self, elapsed)
           ticked == [r EXCEPT !.ticked = TRUE, !.elapsed = elapsed, !.wrote = value,
                               !.done = finished]
       IN  RunFrame(Tail(queue), currentTime,
                    [reqs EXCEPT ![id] = ticked],
                    updateElementProperties(r.self.properties, style, value),
                    IF finished THEN registered ELSE Append(registered, id))

\* The calls of calculateSpringValue the ticks of one frame make: one by each
\* tick that does not settle.
Evaluations(queue, currentTime, reqs) ==
  Cardinality({ k \in 1 .. Len(queue) :
                  ~Settled(reqs[queue[k]].self,
                           Fin(currentTime - reqs[queue[k]].startTime)) })

\* Bounds of the animation model.
MaxRequests == 2
MaxTime == 2200
FrameDeltas == {0, 400, 700}

MaxDelta == CHOOSE d \in FrameDeltas : \A e \in FrameDeltas : e <= d

\* The time a request needs before the clock's bound, when it can settle at all.
Horizon(self) ==
  IF Positive(self.duration) THEN (3 * self.duration.v) \div 2 + MaxDelta ELSE 0

ResolverUnchanged == UNCHANGED <<springs, origin>>

\* springs[i].animate(element, startValue, endValue)
Animate(i, startValue, endValue) ==
  /\ BuiltCurrent(i)
  /\ call' = [NoCall EXCEPT !.op = "animate", !.slot = i,
                            !.startValue = startValue, !.endValue = endValue]
  /\ \/ /\ Truthy(springs[i].useBezier)
        /\ element' = ApplyBezierToAll(springs[i], springs[i].properties,
                                       [element EXCEPT !.log = <<>>],
                                       startValue, endValue)
        /\ UNCHANGED <<now, requests, rafQueue>>
     \/ /\ ~Truthy(springs[i].useBezier)
        /\ Len(requests) < MaxRequests
        /\ now + Horizon(springs[i]) <= MaxTime
        /\ requests' = Append(requests, NewRequest(springs[i], startValue, endValue))
        /\ rafQueue' = Append(rafQueue, Len(requests) + 1)
        /\ UNCHANGED <<now, element>>
  /\ ResolverUnchanged

\* The host delivers a frame dt milliseconds after the last one.
Frame(dt) ==
  /\ now + dt <= MaxTime
  /\ now' = now + dt
  /\ LET after == RunFrame(rafQueue, now + dt, requests,
                           [element EXCEPT !.log = <<>>], <<>>)
     IN  /\ requests' = after.requests
         /\ element' = after.element
         /\ rafQueue' = after.rafQueue
  /\ call' = [NoCall EXCEPT !.op = "frame",
                            !.evaluations = Evaluations(rafQueue, now + dt, requests)]
  /\ ResolverUnchanged

AnimConfigs ==
  { StringConfig("bouncy"), StringConfig("smooth"), StringConfig("flattened"),
    FromPhysicsConfig(Fin(1000), Fin(100000), Fin(10000), Bool(FALSE)),
    FromPhysicsConfig(Fin(1000), Fin(-4000), Fin(10000), Bool(FALSE)),
    [EmptyConfig EXCEPT !.duration = Fin(500), !.bounce = Fin(300), !.isArray = TRUE,
                        !.properties = <<"opacity", "width">>],
    [EmptyConfig EXCEPT !.bounce = Fin(-200), !.isArray = TRUE,
                        !.properties = <<"scale">>],
    [EmptyConfig EXCEPT !.bezierAnimation = Bool(TRUE), !.isArray = TRUE,
                        !.properties = <<"transform", "width">>],
    [EmptyConfig EXCEPT !.bezierAnimation = Bool(TRUE), !.duration = Fin(400),
                        !.bounce = Fin(300), !.isArray = TRUE,
                        !.properties = <<"scale", "opacity">>] }

\* animate's (startValue, endValue)
StartEndIn == { <<Fin(0), Fin(100000)>>, <<Fin(100000), Fin(0)>> }

\* Values that are not numbers, as in animate(el, '0%', '100%').  The loop's
\* arithmetic (endValue - startValue) is for numbers; applyBezierAnimation tests
\* typeof and hands other values on.
TextEndIn == { <<Text, Text>>, <<Fin(0), Text>> }

\* A Spring has been built; nothing is animating.
AnimInit ==
  /\ \E config \in AnimConfigs :
       /\ springs = [i \in Slots |-> IF i = 1 THEN Construct(config) ELSE NoSpring]
       /\ origin = [i \in Slots |->
                      IF i = 1
                      THEN [via |-> NewVia(config), name |-> config.name, config |-> config]
                      ELSE NoOrigin]
  /\ call = NoCall
  /\ now = 0
  /\ requests = <<>>
  /\ rafQueue = <<>>
  /\ element = NoStyle

AnimNext ==
  \/ \E v \in StartEndIn : Animate(1, v[1], v[2])
  \/ \E v \in TextEndIn : Truthy(springs[1].useBezier) /\ Animate(1, v[1], v[2])
  \/ \E dt \in FrameDeltas : Frame(dt)

AnimSpec == AnimInit /\ [][AnimNext]_vars

\* A frame later than the last one.  The steps of AnimNext that are ClockMoves
\* steps are the frames Frame(dt) with dt > 0, enabled exactly when it is.
ClockMoves ==
  \E dt \in FrameDeltas \ {0} :
    /\ now + dt <= MaxTime
    /\ now' = now + dt

\* The host keeps delivering frames, and its clock moves on.
FairAnimSpec == AnimSpec /\ WF_now(ClockMoves)

-----------------------------------------------------------------------------
(* Properties of the resolver and the evaluator *)

One == Fin(Scale)
MinusOne == Fin(-Scale)

\* Slot i was built from the preset name through an entry point of part_001.
FromPresetName(i) == origin[i].via \in {"new(name)", "fromPreset"}

\* Slot i was built by initFromDurationAndBounce: a preset or (duration, bounce).
FromDurationBouncePath(i) ==
  /\ BuiltCurrent(i)
  /\ ~(Has(origin[i].config.mass) /\ Has(origin[i].config.stiffness)
         /\ Has(origin[i].config.damping))

\* The model a valid input is documented to give: positive finite mass,
\* stiffness and duration, bounce in [-1, 1], a numeric damping.
WellFormed(m) ==
  /\ Positive(m.mass) /\ Positive(m.stiffness) /\ Positive(m.duration)
  /\ IsFin(m.damping)
  /\ Le(MinusOne, m.bounce) /\ Le(m.bounce, One)

\* C3: a preset name other than bouncy, smooth, flattened never yields a model,
\* through new Spring(name) or Spring.fromPreset(name): the call fails instead.
C3_UnknownPresetFails ==
  /\ \A i \in Slots : FromPresetName(i) => HasPreset(origin[i].name)
  /\ (call.op \in {"new(name)", "fromPreset"} /\ ~HasPreset(call.name)) => call.threw

\* The README's table of presets (src/README.md lines 88-101).
DocumentedPreset(name) ==
  CASE name = "bouncy" -> [duration |-> Fin(700), bounce |-> Fin(400)]
    [] name = "smooth" -> [duration |-> Fin(500), bounce |-> Fin(0)]
    [] OTHER -> [duration |-> Fin(400), bounce |-> Fin(-200)]

\* Slot i holds a Spring built from the preset name, by either class.
BuiltFromPreset(i, name) ==
  /\ Built(i)
  /\ origin[i].name = name
  /\ FromPresetName(i) \/ origin[i].via = "springs.js"

Model(i) ==
  [mass |-> springs[i].mass, stiffness |-> springs[i].stiffness,
   damping |-> springs[i].damping, duration |-> springs[i].duration,
   bounce |-> springs[i].bounce]

\* C4: a Spring built from a preset has the documented (duration, bounce) and
\* mass 1, and two Springs built from the same preset have the same model.
C4_PresetsAsDocumented ==
  \A name \in PresetNames : \A i \in Slots :
    BuiltFromPreset(i, name) =>
      /\ springs[i].duration = DocumentedPreset(name).duration
      /\ springs[i].bounce = DocumentedPreset(name).bounce
      /\ springs[i].mass = One
      /\ \A j \in Slots : BuiltFromPreset(j, name) => Model(j) = Model(i)

\* C5: every model built has its bounce within [-1, 1].
C5_BounceWithinRange ==
  \A i \in Slots :
    BuiltCurrent(i) => Le(MinusOne, springs[i].bounce) /\ Le(springs[i].bounce, One)

\* The physical shape was supplied: some of mass, stiffness, damping and
\* neither duration nor bounce.
PhysicalShape(config) ==
  /\ ~config.isString
  /\ Has(config.mass) \/ Has(config.stiffness) \/ Has(config.damping)
  /\ ~Has(config.duration) /\ ~Has(config.bounce)

\* C6: a physical shape whose mass or stiffness is not a positive number, or
\* with a field missing or not a number, builds no model: every model built from
\* the physical shape has valid fields, and a positive mass and stiffness.
C6_PhysicalParametersValidated ==
  \A i \in Slots :
    (BuiltCurrent(i) /\ PhysicalShape(origin[i].config)) =>
      /\ Positive(origin[i].config.mass)
      /\ Positive(origin[i].config.stiffness)
      /\ IsFin(origin[i].config.damping)
      /\ Positive(springs[i].mass) /\ Positive(springs[i].stiffness)

\* Equal within one percent (and the last digit held).
Close(x, y) ==
  /\ IsFin(x) /\ IsFin(y)
  /\ AbsI(x.v - y.v) * 100 <= AbsI(y.v) + 100

\* Slot j was built from the (duration, bounce) slot i derived.
Rederived(i, j) ==
  /\ origin[j].via = "fromDurationAndBounce"
  /\ origin[j].config.duration = springs[i].duration
  /\ origin[j].config.bounce = springs[i].bounce

\* C7: a model built from (mass 1, stiffness S > 0, damping D) with its bounce in
\* [-1, 1], fed back as (duration, bounce), gives stiffness S and damping D again.
C7_RoundTrip ==
  \A i \in Slots :
    ( /\ origin[i].via = "fromPhysics"
      /\ springs[i].mass = One
      /\ WellFormed(springs[i])
      /\ Rederived(i, Other(i)) )
    => /\ Close(springs[Other(i)].stiffness, springs[i].stiffness)
       /\ Close(springs[Other(i)].damping, springs[i].damping)

\* C8: calculateSpringValue(0) is 1, for a well-formed model of either regime.
C8_ValueAtZeroIsOne ==
  ( /\ call.op = "calculateSpringValue"
    /\ call.t = Fin(0)
    /\ WellFormed(springs[call.slot]) )
  => call.value = One

\* C9: for a well-formed model with bounce > 0 built from (duration, bounce) or a
\* preset, |calculateSpringValue(t)| <= 1 at every t >= 0.
C9_UnderdampedBounded ==
  ( /\ call.op = "calculateSpringValue"
    /\ FromDurationBouncePath(call.slot)
    /\ WellFormed(springs[call.slot])
    /\ Gt(springs[call.slot].bounce, Fin(0)) )
  => /\ Le(MinusOne, call.value)
     /\ Le(call.value, One)

\* The same finite number.
SameNumber(x, y) == IsFin(x) /\ IsFin(y) /\ x.v = y.v

\* C10: generateBezierPoints returns four control points that are those of any
\* other model with the same bounce, whatever its duration, mass, stiffness
\* and damping, and the call changes no field of any model.
C10_BezierOfBounceAlone ==
  [][ (call'.op = "generateBezierPoints" /\ call' # call) =>
        /\ springs' = springs
        /\ Len(call'.points) = 4
        /\ \A j \in Slots :
             (BuiltCurrent(j)
                /\ SameNumber(springs[j].bounce, springs[call'.slot].bounce))
             => generateBezierPoints(springs[j]) = call'.points ]_vars

\* C10's case: the points of a model were asked for while the other object has
\* the same bounce and another duration, in each of the two regimes.
C10_Witness ==
  /\ call.op = "generateBezierPoints"
  /\ BuiltCurrent(Other(call.slot))
  /\ SameNumber(springs[1].bounce, springs[2].bounce)
  /\ springs[1].duration # springs[2].duration
  /\ springs[1].damping # springs[2].damping
  /\ Gt(springs[1].bounce, Fin(0))

-----------------------------------------------------------------------------
(* Properties of the animation loop *)

RequestIds == 1 .. MaxRequests
Started(id) == id <= Len(requests)
Registered(id) == \E k \in 1 .. Len(rafQueue) : rafQueue[k] = id

\* C1: a request of a Spring with a positive finite duration reaches a tick with
\* elapsed >= 1.5 * duration; that tick writes endValue, and from then on the
\* request has no callback registered and none of its ticks runs.
C1_AnimationSettles ==
  /\ \A id \in RequestIds :
       (Started(id) /\ Positive(requests[id].self.duration))
         ~> (Started(id) /\ requests[id].done)
  /\ [](\A id \in RequestIds :
          (Started(id) /\ requests[id].done) =>
            /\ Settled(requests[id].self, requests[id].elapsed)
            /\ requests[id].wrote = requests[id].endValue
            /\ ~Registered(id))
  /\ [][\A id \in RequestIds :
          (Started(id) /\ requests[id].done) => requests'[id] = requests[id]]_vars

\* C1's case: a request ran ticks that rescheduled, then the one that settled it.
C1_Witness ==
  \E id \in RequestIds :
    /\ Started(id)
    /\ requests[id].done
    /\ Positive(requests[id].self.duration)
    /\ requests[id].startValue # requests[id].endValue
    /\ Gt(requests[id].elapsed, Mul(requests[id].self.duration, Fin(1500)))
    /\ element.transform = [fn |-> "translateY", arg |-> Px(requests[id].endValue)]
    /\ rafQueue = <<>>

\* C2: a tick at elapsed 0, for a model whose value at 0 is 1, writes startValue,
\* and the tick that completes the request writes endValue.
C2_StartToEnd ==
  \A id \in RequestIds :
    Started(id) =>
      /\ ( /\ requests[id].ticked
           /\ ~requests[id].done
           /\ requests[id].elapsed = Fin(0)
           /\ calculateSpringValue(requests[id].self, Fin(0)) = One )
         => requests[id].wrote = requests[id].startValue
      /\ requests[id].done => requests[id].wrote = requests[id].endValue

-----------------------------------------------------------------------------
(* Properties of the choice between the loop and the transition *)

\* The assignments of the last call or frame made for the listed property, the
\* transition aside, and the transitions it set for it.
Applications(property) ==
  SelectSeq(element.log, LAMBDA e : e.by = property /\ e.field # "transition")
Transitions(property) ==
  SelectSeq(element.log, LAMBDA e : e.by = property /\ e.field = "transition")

\* The value inside an assigned text.
ValueOf(e) == IF e.field = "transform" THEN e.text.arg.arg ELSE e.text.arg

Listed == { springs[1].properties[k] : k \in 1 .. Len(springs[1].properties) }

\* A call of animate on a Spring with useBezier set has just returned.
BezierCallReturned == call.op = "animate" /\ Truthy(springs[call.slot].useBezier)

\* applyBezierAnimation's transform branch assigns only when both values are numbers.
SkipsTransform(property) ==
  /\ property = "transform"
  /\ ~(IsNumberType(call.startValue) /\ IsNumberType(call.endValue))

\* What holds of either path whatever the values: with useBezier no callback is
\* registered, no request exists and no frame evaluates the spring; without it no
\* transition is ever set, animate registers one callback and leaves the element
\* alone, and the element changes in frames only.
PathsExclusive ==
  /\ [](Truthy(springs[1].useBezier) =>
          /\ rafQueue = <<>>
          /\ requests = <<>>
          /\ call.evaluations = 0
          /\ BezierCallReturned =>
               \A property \in Listed : Len(Transitions(property)) = 1)
  /\ [](~Truthy(springs[1].useBezier) =>
          /\ element.transition = NoStyle.transition
          /\ \A k \in 1 .. Len(element.log) : element.log[k].field # "transition")
  /\ [][~Truthy(springs[1].useBezier) =>
          /\ call'.op = "animate" =>
               /\ element' = element
               /\ rafQueue' = Append(rafQueue, Len(requests) + 1)
               /\ Len(requests') = Len(requests) + 1
          /\ element' # element => call'.op = "frame"]_vars

\* C11 (as stated): the paths exclude each other, and a call of animate with
\* useBezier set makes exactly one end-value assignment for every listed property.
C11_OneApplicationEach ==
  /\ PathsExclusive
  /\ [](BezierCallReturned =>
          \A property \in Listed :
            /\ Len(Applications(property)) = 1
            /\ ValueOf(Applications(property)[1]) = call.endValue)

\* C11 (amended): the paths exclude each other, and a call of animate with
\* useBezier set makes exactly one end-value assignment for every listed property,
\* except for transform when startValue or endValue is not a number: then it sets
\* the transition and assigns nothing.
C11_OneApplicationUnlessSkipped ==
  /\ PathsExclusive
  /\ [](BezierCallReturned =>
          \A property \in Listed :
            IF SkipsTransform(property)
            THEN Applications(property) = <<>>
            ELSE /\ Len(Applications(property)) = 1
                 /\ ValueOf(Applications(property)[1]) = call.endValue)

\* C11's case: animate(el, '0%', '100%') on a Spring with useBezier set and the
\* properties transform and width returned; it set both transitions and assigned
\* width only.
C11_Witness ==
  /\ BezierCallReturned
  /\ call.endValue = Text
  /\ Listed = {"transform", "width"}
  /\ Len(Transitions("transform")) = 1
  /\ Applications("transform") = <<>>
  /\ Len(Applications("width")) = 1
  /\ element.width = Plain(Text)
  /\ element.transform = NoStyle.transform
  /\ rafQueue = <<>>

-----------------------------------------------------------------------------
(* Properties of overlapping calls on one element *)

\* The style of the element holds the value for the listed property, as
\* updateElementProperties writes a number.
Holds(property, value) ==
  CASE property = "transform" ->
         element.transform = [fn |-> "translateY", arg |-> Px(value)]
    [] property = "opacity" -> element.opacity = Plain(value)
    [] property = "scale" -> element.transform = [fn |-> "scale", arg |-> Plain(value)]
    [] OTHER -> element.width = Px(value)

AllStopped ==
  /\ requests # <<>>
  /\ rafQueue = <<>>
  /\ \A id \in 1 .. Len(requests) : requests[id].done

====
